---- MODULE Spec2Model ----
(***************************************************************************)
(* A model of the SQL SELECT builder of sql_generator: the data classes of *)
(* QueryObjects.py and QueryBuilder of query_generator.py.  Python strings *)
(* are TLA+ strings (sequences of characters), a dict is the sequence of   *)
(* its entries in insertion order, an Optional value is a record           *)
(* [some, val], and an exception is a record [exc, msg].                   *)
(***************************************************************************)
EXTENDS Naturals, Sequences, FiniteSets, TLC

VARIABLES
    phase,            \* "idle" | "constructed" | "raised" | "hung": where QueryBuilder(...) got to
    arg_tables,       \* the constructor's tables argument
    arg_select,       \* the constructor's select argument
    arg_joins,        \* the constructor's joins argument
    tables,           \* self.tables
    joins,            \* self.joins
    table_aliases,    \* self._table_aliases
    column_aliases,   \* self._column_aliases
    ctor_error,       \* the exception the constructor raised
    join_clauses,     \* the list _generate_join_clauses returned to the last build()
    result,           \* what the last build() returned or raised
    first_result,     \* what the first build() on this builder returned or raised
    builds,           \* build() calls made on this builder
    other_phase,          \* a second builder, made from the same Table objects:
    other_tables,         \*   its self.tables
    other_joins,          \*   its self.joins
    other_table_aliases,  \*   its self._table_aliases
    other_column_aliases, \*   its self._column_aliases
    other_result,         \*   what its last build() returned or raised
    other_first_result,   \*   what its first build() returned or raised
    other_builds          \*   build() calls made on it

builder_vars == <<phase, arg_tables, arg_select, arg_joins, tables, joins, table_aliases,
                  column_aliases, ctor_error, join_clauses, result, first_result, builds>>
other_vars == <<other_phase, other_tables, other_joins, other_table_aliases,
                other_column_aliases, other_result, other_first_result, other_builds>>
vars == <<builder_vars, other_vars>>

----------------------------------------------------------------------------
(* Bounds of the model *)

MaxTables == 3
MaxVia == 2
MaxJoins == 2
MaxSelect == 2
MaxBuilds == 2

----------------------------------------------------------------------------
(* Python values *)

None == [some |-> FALSE, val |-> ""]
Some(s) == [some |-> TRUE, val |-> s]
\* bool(x) of an Optional[str]: None and "" are falsy
Truthy(o) == o.some /\ o.val # ""

NoneList == [some |-> FALSE, val |-> <<>>]
SomeList(l) == [some |-> TRUE, val |-> l]
\* bool(x) of an Optional[list] or Optional[dict]: None and the empty one are falsy
TruthyList(o) == o.some /\ o.val # <<>>

NoError == [exc |-> "", msg |-> ""]
ValueError(m) == [exc |-> "ValueError", msg |-> m]
AttributeError(m) == [exc |-> "AttributeError", msg |-> m]
TypeError(m) == [exc |-> "TypeError", msg |-> m]
IndexError(m) == [exc |-> "IndexError", msg |-> m]

Min(a, b) == IF a < b THEN a ELSE b

\* s[:k]
Prefix(s, k) == SubSeq(s, 1, Min(k, Len(s)))
\* s[k:] for a 1-based position k: the text after position k
Suffix(s, k) == SubSeq(s, k + 1, Len(s))
CharAt(s, i) == SubSeq(s, i, i)

\* the positions of character c in s
Positions(s, c) == {i \in 1..Len(s) : CharAt(s, i) = c}
SetMin(S) == CHOOSE x \in S : \A y \in S : x <= y
SetMax(S) == CHOOSE x \in S : \A y \in S : x >= y

UpperChar(c) ==
    CASE c = "a" -> "A" [] c = "b" -> "B" [] c = "c" -> "C" [] c = "d" -> "D"
      [] c = "e" -> "E" [] c = "f" -> "F" [] c = "g" -> "G" [] c = "h" -> "H"
      [] c = "i" -> "I" [] c = "j" -> "J" [] c = "k" -> "K" [] c = "l" -> "L"
      [] c = "m" -> "M" [] c = "n" -> "N" [] c = "o" -> "O" [] c = "p" -> "P"
      [] c = "q" -> "Q" [] c = "r" -> "R" [] c = "s" -> "S" [] c = "t" -> "T"
      [] c = "u" -> "U" [] c = "v" -> "V" [] c = "w" -> "W" [] c = "x" -> "X"
      [] c = "y" -> "Y" [] c = "z" -> "Z" [] OTHER -> c

\* str.upper()
RECURSIVE Upper(_)
Upper(s) == IF s = "" THEN "" ELSE UpperChar(CharAt(s, 1)) \o Upper(Suffix(s, 1))

\* sep.join(parts)
RECURSIVE StrJoin(_, _)
StrJoin(sep, parts) ==
    IF parts = <<>> THEN ""
    ELSE IF Len(parts) = 1 THEN parts[1]
    ELSE parts[1] \o sep \o StrJoin(sep, Tail(parts))

\* a dict: the sequence of its entries [k, v] in insertion order
DictHas(d, k) == \E i \in 1..Len(d) : d[i].k = k
DictGet(d, k) == d[CHOOSE i \in 1..Len(d) : d[i].k = k].v
\* d[k] = v
DictPut(d, k, v) ==
    IF DictHas(d, k)
    THEN [i \in 1..Len(d) |-> IF d[i].k = k THEN [k |-> k, v |-> v] ELSE d[i]]
    ELSE Append(d, [k |-> k, v |-> v])

----------------------------------------------------------------------------
(* QueryObjects.py *)

JoinTypeValue(t) ==
    CASE t = "INNER" -> "INNER JOIN"
      [] t = "LEFT" -> "LEFT JOIN"
      [] t = "RIGHT" -> "RIGHT JOIN"
      [] t = "FULL" -> "FULL OUTER JOIN"

AggFunctionValue(f) ==
    CASE f = "COUNT" -> "COUNT"
      [] f = "SUM" -> "SUM"
      [] f = "AVG" -> "AVG"
      [] f = "MIN" -> "MIN"
      [] f = "MAX" -> "MAX"
      [] f = "COUNT_DISTINCT" -> "COUNT(DISTINCT"

TableJoinAttribute(src, tgt, tname) ==
    [source_column |-> src, target_column |-> tgt, table_name |-> tname]

\* get_table_name falling back to join_key only when the override is None
get_table_name_OverrideUnlessNone(join_def, join_key) ==
    IF join_def.table_name.some THEN join_def.table_name.val ELSE join_key

\* TableJoinAttribute.get_table_name: self.table_name or join_key
get_table_name(join_def, join_key) ==
    IF Truthy(join_def.table_name) THEN join_def.table_name.val ELSE join_key

Table(name, alias, tjoins) == [name |-> name, alias |-> alias, joins |-> tjoins]

ViaStep(table_name, join_type) == [table_name |-> table_name, join_type |-> join_type]

\* a join request: a Join object, or a plain string
Join(join_key, via_steps) ==
    [kind |-> "Join", text |-> "", join_key |-> join_key, via_steps |-> via_steps]
StrJoinItem(s) ==
    [kind |-> "str", text |-> s, join_key |-> "", via_steps |-> NoneList]

\* a select entry: a SelectColumn object, or a plain string
SelectColumn(column, table, alias, agg_function, distinct) ==
    [kind |-> "SelectColumn", text |-> "", column |-> column, table |-> table,
     alias |-> alias, agg_function |-> agg_function, distinct |-> distinct]
StrSelectItem(s) ==
    [kind |-> "str", text |-> s, column |-> "", table |-> None, alias |-> None,
     agg_function |-> None, distinct |-> FALSE]

\* to_sql testing the distinct flag before the aggregate function
to_sql_DistinctFirst(col, aliases) ==
    IF Truthy(col.table) /\ ~DictHas(aliases, col.table.val)
    THEN [err |-> ValueError("Table '" \o col.table.val \o "' not found in aliases"),
          sql |-> ""]
    ELSE
      LET sql_column ==
              IF Truthy(col.table)
              THEN DictGet(aliases, col.table.val) \o "." \o col.column
              ELSE col.column
          sql_expr ==
              IF col.distinct
              THEN "DISTINCT " \o sql_column
              ELSE IF col.agg_function.some
              THEN IF col.agg_function.val = "COUNT_DISTINCT"
                   THEN "COUNT(DISTINCT " \o sql_column \o ")"
                   ELSE AggFunctionValue(col.agg_function.val) \o "(" \o sql_column \o ")"
              ELSE sql_column
      IN  [err |-> NoError,
           sql |-> IF Truthy(col.alias)
                   THEN sql_expr \o " AS " \o col.alias.val
                   ELSE sql_expr]

\* SelectColumn.to_sql: [err, sql]
to_sql(col, aliases) ==
    IF Truthy(col.table) /\ ~DictHas(aliases, col.table.val)
    THEN [err |-> ValueError("Table '" \o col.table.val \o "' not found in aliases"),
          sql |-> ""]
    ELSE
      LET sql_column ==
              IF Truthy(col.table)
              THEN DictGet(aliases, col.table.val) \o "." \o col.column
              ELSE col.column
          sql_expr ==
              IF col.agg_function.some
              THEN IF col.agg_function.val = "COUNT_DISTINCT"
                   THEN "COUNT(DISTINCT " \o sql_column \o ")"
                   ELSE AggFunctionValue(col.agg_function.val) \o "(" \o sql_column \o ")"
              ELSE IF col.distinct
                   THEN "DISTINCT " \o sql_column
                   ELSE sql_column
      IN  [err |-> NoError,
           sql |-> IF Truthy(col.alias)
                   THEN sql_expr \o " AS " \o col.alias.val
                   ELSE sql_expr]

----------------------------------------------------------------------------
(* QueryBuilder: the constructor *)

\* _validate_unique_table_names: the error raised, or NoError
validate_unique_table_names(tbls) ==
    IF Len(tbls) # Cardinality({tbls[i].name : i \in 1..Len(tbls)})
    THEN ValueError("Duplicate table names found")  \* then the repr of the set of duplicates
    ELSE NoError

\* FirstPass without its membership test: a repeated user alias is recorded again
RECURSIVE FirstPass_NoDuplicateCheck(_, _, _, _)
FirstPass_NoDuplicateCheck(tbls, i, aliases, used) ==
    IF i > Len(tbls) THEN [err |-> NoError, aliases |-> aliases, used |-> used]
    ELSE IF Truthy(tbls[i].alias)
    THEN FirstPass_NoDuplicateCheck(tbls, i + 1,
                                    DictPut(aliases, tbls[i].name, tbls[i].alias.val),
                                    used \cup {tbls[i].alias.val})
    ELSE FirstPass_NoDuplicateCheck(tbls, i + 1, aliases, used)

\* the first loop of _generate_table_aliases, from table i on
RECURSIVE FirstPass(_, _, _, _)
FirstPass(tbls, i, aliases, used) ==
    IF i > Len(tbls) THEN [err |-> NoError, aliases |-> aliases, used |-> used]
    ELSE IF Truthy(tbls[i].alias)
    THEN IF tbls[i].alias.val \in used
         THEN [err |-> ValueError("Duplicate alias '" \o tbls[i].alias.val \o "' found"),
               aliases |-> aliases, used |-> used]
         ELSE FirstPass(tbls, i + 1,
                        DictPut(aliases, tbls[i].name, tbls[i].alias.val),
                        used \cup {tbls[i].alias.val})
    ELSE FirstPass(tbls, i + 1, aliases, used)

AliasStart == 3

\* AliasSearch without its while loop: the first candidate is taken as it is
AliasSearch_NoRetry(name, used, len) == [found |-> TRUE, alias |-> Prefix(name, len)]

\* the while loop of _generate_table_aliases with alias_length = len on entry.
\* Once len reaches the length of the name the candidate is the whole name and
\* no longer changes, so a collision then repeats for ever: found is FALSE.
RECURSIVE AliasSearch(_, _, _)
AliasSearch(name, used, len) ==
    LET alias == Prefix(name, len) IN
    IF alias \notin used THEN [found |-> TRUE, alias |-> alias]
    ELSE IF len >= Len(name) THEN [found |-> FALSE, alias |-> alias]
    ELSE AliasSearch(name, used, len + 1)

\* the second loop of _generate_table_aliases, from table i on
RECURSIVE SecondPass(_, _, _, _)
SecondPass(tbls, i, aliases, used) ==
    IF i > Len(tbls) THEN [hang |-> FALSE, aliases |-> aliases]
    ELSE IF ~Truthy(tbls[i].alias)
    THEN LET s == AliasSearch(tbls[i].name, used, AliasStart) IN
         IF ~s.found THEN [hang |-> TRUE, aliases |-> aliases]
         ELSE SecondPass(tbls, i + 1, DictPut(aliases, tbls[i].name, s.alias),
                         used \cup {s.alias})
    ELSE SecondPass(tbls, i + 1, aliases, used)

\* _generate_table_aliases: [err, hang, aliases]
generate_table_aliases(tbls) ==
    LET p1 == FirstPass(tbls, 1, <<>>, {}) IN
    IF p1.err # NoError THEN [err |-> p1.err, hang |-> FALSE, aliases |-> <<>>]
    ELSE LET p2 == SecondPass(tbls, 1, p1.aliases, p1.used) IN
         [err |-> NoError, hang |-> p2.hang,
          aliases |-> IF p2.hang THEN <<>> ELSE p2.aliases]

\* repr of a list of strings
ListRepr(l) == "[" \o StrJoin(", ", [i \in 1..Len(l) |-> "'" \o l[i] \o "'"]) \o "]"

\* the loop body with column.rsplit(".", 1) in place of column.split(".", 1)
ConvertColumn_LastDot(column, aliases) ==
    IF column.kind = "SelectColumn" THEN to_sql(column, aliases)
    ELSE IF Positions(column.text, ".") # {}
    THEN LET dot == SetMax(Positions(column.text, "."))
             table_name == Prefix(column.text, dot - 1)
             col_name == Suffix(column.text, dot)
         IN  IF DictHas(aliases, table_name)
             THEN [err |-> NoError, sql |-> DictGet(aliases, table_name) \o "." \o col_name]
             ELSE [err |-> ValueError("Table '" \o table_name
                              \o "' not found in tables list. Available tables: "
                              \o ListRepr([i \in 1..Len(aliases) |-> aliases[i].k])),
                   sql |-> ""]
    ELSE [err |-> NoError, sql |-> column.text]

\* one iteration of the loop of _convert_columns_to_aliases: [err, sql]
ConvertColumn(column, aliases) ==
    IF column.kind = "SelectColumn" THEN to_sql(column, aliases)
    ELSE IF Positions(column.text, ".") # {}
    THEN LET dot == SetMin(Positions(column.text, "."))
             table_name == Prefix(column.text, dot - 1)
             col_name == Suffix(column.text, dot)
         IN  IF DictHas(aliases, table_name)
             THEN [err |-> NoError, sql |-> DictGet(aliases, table_name) \o "." \o col_name]
             ELSE [err |-> ValueError("Table '" \o table_name
                              \o "' not found in tables list. Available tables: "
                              \o ListRepr([i \in 1..Len(aliases) |-> aliases[i].k])),
                   sql |-> ""]
    ELSE [err |-> NoError, sql |-> column.text]

\* _convert_columns_to_aliases, from entry i on: [err, cols]
RECURSIVE convert_columns_to_aliases(_, _, _, _)
convert_columns_to_aliases(columns, i, aliases, aliased_columns) ==
    IF i > Len(columns) THEN [err |-> NoError, cols |-> aliased_columns]
    ELSE LET c == ConvertColumn(columns[i], aliases) IN
         IF c.err # NoError THEN [err |-> c.err, cols |-> <<>>]
         ELSE convert_columns_to_aliases(columns, i + 1, aliases,
                                         Append(aliased_columns, c.sql))

\* self.tables = {table.name: table for table in tables}, from table i on
RECURSIVE TablesDict(_, _, _)
TablesDict(tbls, i, d) ==
    IF i > Len(tbls) THEN d
    ELSE TablesDict(tbls, i + 1, DictPut(d, tbls[i].name, tbls[i]))

\* self.joins = joins or []
JoinsOrEmpty(j) ==
    IF j.kind = "None" THEN [kind |-> "list", items |-> <<>>]
    ELSE IF j.kind = "list" /\ j.items = <<>> THEN [kind |-> "list", items |-> <<>>]
    ELSE IF j.kind = "single" /\ j.items[1].kind = "str" /\ j.items[1].text = ""
    THEN [kind |-> "list", items |-> <<>>]
    ELSE j

\* QueryBuilder.__init__: [status, err, tables, joins, table_aliases, column_aliases]
QueryBuilder(tbls, select, jn) ==
    LET unbuilt(status, err) ==
            [status |-> status, err |-> err, tables |-> <<>>,
             joins |-> [kind |-> "list", items |-> <<>>],
             table_aliases |-> <<>>, column_aliases |-> <<>>]
        v == validate_unique_table_names(tbls)
        g == generate_table_aliases(tbls)
        c == convert_columns_to_aliases(select, 1, g.aliases, <<>>)
    IN  IF v # NoError THEN unbuilt("raised", v)
        ELSE IF g.err # NoError THEN unbuilt("raised", g.err)
        ELSE IF g.hang THEN unbuilt("hung", NoError)
        ELSE IF c.err # NoError THEN unbuilt("raised", c.err)
        ELSE [status |-> "constructed", err |-> NoError,
              tables |-> TablesDict(tbls, 1, <<>>), joins |-> JoinsOrEmpty(jn),
              table_aliases |-> g.aliases, column_aliases |-> c.cols]

----------------------------------------------------------------------------
(* QueryBuilder: build() *)

\* _find_join_to_table: [err, key]
find_join_to_table(from_table, to_table_name) ==
    IF ~from_table.joins.some
    THEN [err |-> AttributeError("'NoneType' object has no attribute 'items'"), key |-> ""]
    ELSE LET d == from_table.joins.val
             hits == {i \in 1..Len(d) : get_table_name(d[i].v, d[i].k) = to_table_name}
         IN  IF hits # {} THEN [err |-> NoError, key |-> d[SetMin(hits)].k]
             ELSE [err |-> ValueError("No join found from '" \o from_table.name
                                      \o "' to '" \o to_table_name \o "'"),
                   key |-> ""]

\* parse_join_string splitting at the first space (split for rsplit)
parse_join_string_FirstSpace(join_str) ==
    IF Positions(join_str, " ") = {}
    THEN [join_type |-> "INNER JOIN", join_key |-> join_str]
    ELSE LET sp == SetMin(Positions(join_str, " ")) IN
         [join_type |-> Upper(Prefix(join_str, sp - 1)), join_key |-> Suffix(join_str, sp)]

\* _parse_join_string: [join_type, join_key]
parse_join_string(join_str) ==
    IF Positions(join_str, " ") = {}
    THEN [join_type |-> "INNER JOIN", join_key |-> join_str]
    ELSE LET sp == SetMax(Positions(join_str, " ")) IN
         [join_type |-> Upper(Prefix(join_str, sp - 1)), join_key |-> Suffix(join_str, sp)]

\* _build_direct_join: [err, clause]
build_direct_join(primary_table, join_key, join_type, aliases) ==
    IF ~primary_table.joins.some
    THEN [err |-> TypeError("argument of type 'NoneType' is not iterable"), clause |-> ""]
    ELSE IF ~DictHas(primary_table.joins.val, join_key)
    THEN [err |-> ValueError("Join '" \o join_key \o "' not found in table '"
                             \o primary_table.name \o "' joins"),
          clause |-> ""]
    ELSE
      LET join_def == DictGet(primary_table.joins.val, join_key)
          target_table_name == get_table_name(join_def, join_key)
      IN  IF ~DictHas(aliases, target_table_name)
          THEN [err |-> ValueError("Target table '" \o target_table_name
                                   \o "' not found in tables list"),
                clause |-> ""]
          ELSE
            LET primary_alias == DictGet(aliases, primary_table.name)
                target_alias == DictGet(aliases, target_table_name)
                join_condition == primary_alias \o "." \o join_def.source_column \o " = "
                                  \o target_alias \o "." \o join_def.target_column
            IN  [err |-> NoError,
                 clause |-> join_type \o " " \o target_table_name \o " " \o target_alias
                            \o " ON " \o join_condition]

\* ViaLoop joining every step with INNER JOIN, whatever the step declares
RECURSIVE ViaLoop_IgnoresJoinType(_, _, _, _, _, _)
ViaLoop_IgnoresJoinType(steps, i, current_table, tbls, aliases, clauses) ==
    IF i > Len(steps) THEN [err |-> NoError, clauses |-> clauses]
    ELSE IF ~DictHas(aliases, steps[i].table_name)
    THEN [err |-> ValueError("Via table '" \o steps[i].table_name
                             \o "' not found in tables list"),
          clauses |-> <<>>]
    ELSE
      LET f == find_join_to_table(current_table, steps[i].table_name)
          j == build_direct_join(current_table, f.key, JoinTypeValue("INNER"), aliases)
      IN  IF f.err # NoError THEN [err |-> f.err, clauses |-> <<>>]
          ELSE IF j.err # NoError THEN [err |-> j.err, clauses |-> <<>>]
          ELSE ViaLoop_IgnoresJoinType(steps, i + 1, DictGet(tbls, steps[i].table_name),
                                       tbls, aliases, Append(clauses, j.clause))

\* the loop of _build_via_join_with_steps from step i on: [err, clauses]
RECURSIVE ViaLoop(_, _, _, _, _, _)
ViaLoop(steps, i, current_table, tbls, aliases, clauses) ==
    IF i > Len(steps) THEN [err |-> NoError, clauses |-> clauses]
    ELSE IF ~DictHas(aliases, steps[i].table_name)
    THEN [err |-> ValueError("Via table '" \o steps[i].table_name
                             \o "' not found in tables list"),
          clauses |-> <<>>]
    ELSE
      LET f == find_join_to_table(current_table, steps[i].table_name)
          j == build_direct_join(current_table, f.key, JoinTypeValue(steps[i].join_type),
                                 aliases)
      IN  IF f.err # NoError THEN [err |-> f.err, clauses |-> <<>>]
          ELSE IF j.err # NoError THEN [err |-> j.err, clauses |-> <<>>]
          ELSE ViaLoop(steps, i + 1, DictGet(tbls, steps[i].table_name), tbls, aliases,
                       Append(clauses, j.clause))

\* _build_via_join_with_steps: [err, clauses]
build_via_join_with_steps(primary_table, join_obj, tbls, aliases) ==
    ViaLoop(join_obj.via_steps.val, 1, primary_table, tbls, aliases, <<>>)

\* a Join object resolved by looking its join_key up in the primary table's
\* relationships before its via-steps are walked
JoinObjectClauses_LooksUpJoinKey(primary_table, join_item, tbls, aliases) ==
    IF TruthyList(join_item.via_steps)
    THEN IF primary_table.joins.some /\ DictHas(primary_table.joins.val, join_item.join_key)
         THEN build_via_join_with_steps(primary_table, join_item, tbls, aliases)
         ELSE [err |-> ValueError("Join '" \o join_item.join_key \o "' not found in table '"
                                  \o primary_table.name \o "' joins"),
               clauses |-> <<>>]
    ELSE LET j == build_direct_join(primary_table, join_item.join_key,
                                    JoinTypeValue("INNER"), aliases)
         IN  [err |-> j.err, clauses |-> IF j.err = NoError THEN <<j.clause>> ELSE <<>>]

\* one request of _generate_join_clauses, a Join object: [err, clauses]
JoinObjectClauses(primary_table, join_item, tbls, aliases) ==
    IF TruthyList(join_item.via_steps)
    THEN build_via_join_with_steps(primary_table, join_item, tbls, aliases)
    ELSE LET j == build_direct_join(primary_table, join_item.join_key,
                                    JoinTypeValue("INNER"), aliases)
         IN  [err |-> j.err, clauses |-> IF j.err = NoError THEN <<j.clause>> ELSE <<>>]

\* one iteration of the loop of _generate_join_clauses: [err, clauses]
JoinItemClauses(primary_table, join_item, tbls, aliases) ==
    IF join_item.kind = "Join"
    THEN JoinObjectClauses(primary_table, join_item, tbls, aliases)
    ELSE LET p == parse_join_string(join_item.text)
             j == build_direct_join(primary_table, p.join_key, p.join_type, aliases)
         IN  [err |-> j.err, clauses |-> IF j.err = NoError THEN <<j.clause>> ELSE <<>>]

\* the loop of _generate_join_clauses over a list, from item i on: [err, clauses]
RECURSIVE JoinListLoop(_, _, _, _, _, _)
JoinListLoop(items, i, primary_table, tbls, aliases, clauses) ==
    IF i > Len(items) THEN [err |-> NoError, clauses |-> clauses]
    ELSE LET r == JoinItemClauses(primary_table, items[i], tbls, aliases) IN
         IF r.err # NoError THEN [err |-> r.err, clauses |-> <<>>]
         ELSE JoinListLoop(items, i + 1, primary_table, tbls, aliases, clauses \o r.clauses)

\* _generate_join_clauses: [err, clauses]
generate_join_clauses(tbls, jn, aliases) ==
    LET primary_table == tbls[1].v IN
    IF jn.kind = "list"
    THEN JoinListLoop(jn.items, 1, primary_table, tbls, aliases, <<>>)
    ELSE IF jn.items[1].kind = "str"
    THEN [err |-> AttributeError("'str' object has no attribute 'via_steps'"),
          clauses |-> <<>>]
    ELSE JoinObjectClauses(primary_table, jn.items[1], tbls, aliases)

NoResult == [status |-> "none", sql |-> "", params |-> <<>>, err |-> NoError]
Returned(sql, params) == [status |-> "returned", sql |-> sql, params |-> params, err |-> NoError]
Raised(err) == [status |-> "raised", sql |-> "", params |-> <<>>, err |-> err]

\* AssembleSql extending the clause list with the JOINs before the FROM clause
AssembleSql_JoinsBeforeFrom(select_clause, from_clause, clauses) ==
    StrJoin(" ", <<select_clause>> \o clauses \o <<from_clause>>)

\* the statement build() assembles from its clauses
AssembleSql(select_clause, from_clause, clauses) ==
    StrJoin(" ", <<select_clause, from_clause>> \o clauses)

\* build(): [result, clauses]
build(tbls, jn, aliases, cols) ==
    IF tbls = <<>>
    THEN [result |-> Raised(IndexError("list index out of range")), clauses |-> <<>>]
    ELSE
      LET select_clause == "SELECT " \o StrJoin(", ", cols)
          primary_table == tbls[1].v
          primary_alias == DictGet(aliases, primary_table.name)
          from_clause == "FROM " \o primary_table.name \o " " \o primary_alias
          g == generate_join_clauses(tbls, jn, aliases)
      IN  IF g.err # NoError THEN [result |-> Raised(g.err), clauses |-> <<>>]
          ELSE [result |-> Returned(AssembleSql(select_clause, from_clause, g.clauses), <<>>),
                clauses |-> g.clauses]

----------------------------------------------------------------------------
(* The inputs the builder is driven with *)

\* the relationships each table of the schema declares
SchemaJoins(name) ==
    CASE name = "users" ->
           SomeList(<<[k |-> "recent orders",
                       v |-> TableJoinAttribute("id", "customer_id", Some("orders"))],
                      [k |-> "orders", v |-> TableJoinAttribute("id", "user_id", None)],
                      [k |-> "profiles", v |-> TableJoinAttribute("id", "user_id", Some(""))]>>)
      [] name = "orders" ->
           SomeList(<<[k |-> "items", v |-> TableJoinAttribute("id", "order_id", None)],
                      [k |-> "users", v |-> TableJoinAttribute("user_id", "id", None)]>>)
      [] OTHER -> NoneList

SeqsUpTo(S, n) == UNION {[1..m -> S] : m \in 0..n}
Injective(l) == \A i, j \in 1..Len(l) : l[i] = l[j] => i = j

\* table lists for alias allocation: any names, in any order, with any aliases
AliasNames == {"users", "orders", "ord"}
AliasChoices == {None, Some(""), Some("u"), Some("ord")}
AliasTables == {Table(n, a, SchemaJoins(n)) : n \in AliasNames, a \in AliasChoices}
AliasTableLists == SeqsUpTo(AliasTables, MaxTables)

\* table lists for join resolution: distinct tables of the schema in any order
JoinNames == {"users", "orders", "items"}
JoinTables == {Table(n, None, SchemaJoins(n)) : n \in JoinNames}
                  \cup {Table("users", Some("u"), SchemaJoins("users"))}
JoinTableLists ==
    {l \in SeqsUpTo(JoinTables, Min(MaxTables, Cardinality(JoinNames))) :
        l # <<>> /\ Injective([i \in 1..Len(l) |-> l[i].name])}

ViaSteps == {ViaStep(t, jt) : t \in JoinNames, jt \in {"INNER", "LEFT"}}
ViaLists == SeqsUpTo(ViaSteps, MaxVia)

JoinItems ==
    {StrJoinItem(s) : s \in {"orders", "left join orders", "items", "recent orders", ""}}
      \cup {Join(k, NoneList) : k \in {"orders", "recent orders", "profiles", "ghost"}}
      \cup {Join("items", SomeList(v)) : v \in ViaLists}
ListJoinItems ==
    {StrJoinItem("orders"), StrJoinItem("left join orders"), StrJoinItem("ghost"),
     Join("recent orders", NoneList),
     Join("items", SomeList(<<ViaStep("orders", "INNER"), ViaStep("items", "LEFT")>>))}

NoJoins == [kind |-> "None", items |-> <<>>]
SingleJoin(item) == [kind |-> "single", items |-> <<item>>]
JoinList(items) == [kind |-> "list", items |-> items]
JoinInputs ==
    {NoJoins} \cup {SingleJoin(it) : it \in JoinItems}
      \cup {JoinList(<<it>>) : it \in JoinItems}
      \cup {JoinList(l) : l \in SeqsUpTo(ListJoinItems, MaxJoins)}

\* the joins arguments of two builders that share their Table objects
SharedJoinInputs ==
    {NoJoins, SingleJoin(Join("orders", NoneList))}
      \cup {JoinList(<<it>>) : it \in ListJoinItems}

SelectItems ==
    {StrSelectItem(s) : s \in {"*", "users.name", "ghost.col", "orders.a.b", ".x"}}
      \cup {SelectColumn("id", t, a, f, d) :
              t \in {None, Some(""), Some("orders"), Some("ghost")},
              a \in {None, Some(""), Some("n")},
              f \in {None, Some("COUNT"), Some("SUM"), Some("AVG"), Some("MIN"),
                     Some("MAX"), Some("COUNT_DISTINCT")},
              d \in BOOLEAN}
ListSelectItems ==
    {StrSelectItem("*"), StrSelectItem("users.name"), StrSelectItem("ghost.col"),
     SelectColumn("id", Some("orders"), Some("n"), Some("COUNT"), FALSE),
     SelectColumn("NOW()", None, None, None, TRUE)}
SelectLists ==
    {<<it>> : it \in SelectItems} \cup SeqsUpTo(ListSelectItems, MaxSelect)
SelectTableLists ==
    {<<Table("users", Some("u"), SchemaJoins("users")), Table("orders", None, SchemaJoins("orders"))>>,
     <<Table("orders", None, SchemaJoins("orders")), Table("users", None, SchemaJoins("users"))>>,
     <<Table("orders", None, SchemaJoins("orders"))>>}

DefaultSelect ==
    <<StrSelectItem("*"), SelectColumn("id", None, Some("n"), Some("COUNT"), FALSE)>>

\* the constructor calls made: each varies one argument over its whole range
Inputs ==
    {[tables |-> t, select |-> <<StrSelectItem("*")>>, joins |-> NoJoins] :
        t \in AliasTableLists}
      \cup {[tables |-> t, select |-> DefaultSelect, joins |-> j] :
              t \in JoinTableLists, j \in JoinInputs}
      \cup {[tables |-> t, select |-> s, joins |-> j] :
              t \in SelectTableLists, s \in SelectLists,
              j \in {NoJoins, JoinList(<<StrJoinItem("orders")>>)}}

----------------------------------------------------------------------------
(* The state machine *)

Init ==
    /\ phase = "idle"
    /\ arg_tables = <<>>
    /\ arg_select = <<>>
    /\ arg_joins = NoJoins
    /\ tables = <<>>
    /\ joins = JoinList(<<>>)
    /\ table_aliases = <<>>
    /\ column_aliases = <<>>
    /\ ctor_error = NoError
    /\ join_clauses = <<>>
    /\ result = NoResult
    /\ first_result = NoResult
    /\ builds = 0
    /\ other_phase = "idle"
    /\ other_tables = <<>>
    /\ other_joins = JoinList(<<>>)
    /\ other_table_aliases = <<>>
    /\ other_column_aliases = <<>>
    /\ other_result = NoResult
    /\ other_first_result = NoResult
    /\ other_builds = 0

\* QueryBuilder(inp.tables, inp.select, inp.joins)
Construct(inp) ==
    /\ LET b == QueryBuilder(inp.tables, inp.select, inp.joins) IN
         /\ phase' = b.status
         /\ ctor_error' = b.err
         /\ tables' = b.tables
         /\ joins' = b.joins
         /\ table_aliases' = b.table_aliases
         /\ column_aliases' = b.column_aliases
    /\ arg_tables' = inp.tables
    /\ arg_select' = inp.select
    /\ arg_joins' = inp.joins
    /\ UNCHANGED <<join_clauses, result, first_result, builds>>

\* other = QueryBuilder(inp.tables, inp.select, inp.joins)
ConstructOther(inp) ==
    /\ LET b == QueryBuilder(inp.tables, inp.select, inp.joins) IN
         /\ other_phase' = b.status
         /\ other_tables' = b.tables
         /\ other_joins' = b.joins
         /\ other_table_aliases' = b.table_aliases
         /\ other_column_aliases' = b.column_aliases
    /\ UNCHANGED <<other_result, other_first_result, other_builds>>

\* a build() that pops each request off self.joins as it renders it
Build_ConsumesJoins ==
    /\ phase = "constructed"
    /\ builds < MaxBuilds
    /\ LET r == build(tables, joins, table_aliases, column_aliases) IN
         /\ result' = r.result
         /\ join_clauses' = r.clauses
         /\ first_result' = IF builds = 0 THEN r.result ELSE first_result
    /\ builds' = builds + 1
    /\ joins' = JoinList(<<>>)
    /\ UNCHANGED <<phase, arg_tables, arg_select, arg_joins, tables,
                   table_aliases, column_aliases, ctor_error, other_vars>>

\* builder.build()
Build ==
    /\ phase = "constructed"
    /\ builds < MaxBuilds
    /\ LET r == build(tables, joins, table_aliases, column_aliases) IN
         /\ result' = r.result
         /\ join_clauses' = r.clauses
         /\ first_result' = IF builds = 0 THEN r.result ELSE first_result
    /\ builds' = builds + 1
    /\ UNCHANGED <<phase, arg_tables, arg_select, arg_joins, tables, joins,
                   table_aliases, column_aliases, ctor_error, other_vars>>

\* other.build()
BuildOther ==
    /\ other_phase = "constructed"
    /\ other_builds < MaxBuilds
    /\ LET r == build(other_tables, other_joins, other_table_aliases,
                      other_column_aliases) IN
         /\ other_result' = r.result
         /\ other_first_result' = IF other_builds = 0 THEN r.result ELSE other_first_result
    /\ other_builds' = other_builds + 1
    /\ UNCHANGED <<other_phase, other_tables, other_joins, other_table_aliases,
                   other_column_aliases, builder_vars>>

\* the caller constructs its builder from one of the inputs
NewBuilder ==
    /\ phase = "idle"
    /\ \E inp \in Inputs : Construct(inp) /\ UNCHANGED other_vars

Next ==
    \/ NewBuilder
    \/ Build

Spec == Init /\ [][Next]_vars

\* the caller constructs two builders from the same list of Table objects
NewBuilders ==
    /\ phase = "idle"
    /\ \E t \in JoinTableLists, j \in SharedJoinInputs, oj \in SharedJoinInputs :
          /\ Construct([tables |-> t, select |-> DefaultSelect, joins |-> j])
          /\ ConstructOther([tables |-> t, select |-> DefaultSelect, joins |-> oj])

\* build() calls on the two builders, interleaved in any order
NextShared ==
    \/ NewBuilders
    \/ Build
    \/ BuildOther

SpecShared == Init /\ [][NextShared]_vars

----------------------------------------------------------------------------
(* Vocabulary of the properties *)

StartsWith(s, p) == Len(p) <= Len(s) /\ SubSeq(s, 1, Len(p)) = p
NamesDistinct(tbls) == \A i, j \in 1..Len(tbls) : tbls[i].name = tbls[j].name => i = j
Built == phase = "constructed" /\ builds > 0
PrimaryTable == tables[1].v
AliasOf(name) == DictGet(table_aliases, name)

\* what QueryBuilder(tbls, select, jn).build() gives its caller
RunBuild(tbls, select, jn) ==
    LET b == QueryBuilder(tbls, select, jn) IN
    IF b.status = "hung" THEN [status |-> "hung", sql |-> "", params |-> <<>>, err |-> NoError]
    ELSE IF b.status = "raised" THEN Raised(b.err)
    ELSE build(b.tables, b.joins, b.table_aliases, b.column_aliases).result

IsViaRequest(item) == item.kind = "Join" /\ TruthyList(item.via_steps)
ClauseCount(item) == IF IsViaRequest(item) THEN Len(item.via_steps.val) ELSE 1
\* the JOIN clauses the requests before request k account for
RECURSIVE ClausesBefore(_, _)
ClausesBefore(items, k) ==
    IF k <= 1 THEN 0 ELSE ClausesBefore(items, k - 1) + ClauseCount(items[k - 1])

----------------------------------------------------------------------------
(* C1 *)

\* C1: alias allocation terminates for every list of tables with pairwise
\* distinct names: the prefix search of each table without a user alias reaches
\* a non-colliding prefix, so the constructor never hangs in it.
C1_AliasAllocationTerminates ==
    NamesDistinct(arg_tables) => phase # "hung"

----------------------------------------------------------------------------
(* C2 *)

\* C2: after a successful construction every table without an explicit alias
\* is mapped to a prefix of its name, and all the aliases of the mapping, user
\* declared and generated, are pairwise distinct.
C2_GeneratedAliasesArePrefixesAndUnique ==
    phase = "constructed" =>
      /\ \A i \in 1..Len(arg_tables) :
           /\ DictHas(table_aliases, arg_tables[i].name)
           /\ ~Truthy(arg_tables[i].alias) =>
                StartsWith(arg_tables[i].name, AliasOf(arg_tables[i].name))
      /\ \A i, j \in 1..Len(table_aliases) :
           table_aliases[i].v = table_aliases[j].v => i = j

\* a builder whose generated alias had to grow past its first candidate, next
\* to a user-declared alias
C2_Witness ==
    /\ phase = "constructed"
    /\ \E i, j \in 1..Len(arg_tables) :
         /\ ~Truthy(arg_tables[i].alias)
         /\ Len(AliasOf(arg_tables[i].name)) > AliasStart
         /\ Truthy(arg_tables[j].alias)

----------------------------------------------------------------------------
(* C3 *)

SharedAlias(tbls, explicit(_)) ==
    \E i, j \in 1..Len(tbls) :
        i # j /\ explicit(tbls[i].alias) /\ explicit(tbls[j].alias)
              /\ tbls[i].alias.val = tbls[j].alias.val

DuplicateAliasFailure ==
    /\ phase = "raised"
    /\ ctor_error.exc = "ValueError"
    /\ \E i \in 1..Len(arg_tables) :
         ctor_error.msg = "Duplicate alias '" \o arg_tables[i].alias.val \o "' found"
    /\ table_aliases = <<>>
    /\ result = NoResult

IsGiven(o) == o.some

\* C3 as stated: every table with an explicit alias is mapped to exactly that
\* alias, and two tables declaring the same user alias make the construction
\* fail with the duplicate-alias error, leaving no alias mapping and no SQL.
C3_AsStated ==
    /\ phase = "constructed" =>
         \A i \in 1..Len(arg_tables) :
             IsGiven(arg_tables[i].alias) =>
                 AliasOf(arg_tables[i].name) = arg_tables[i].alias.val
    /\ (phase # "idle" /\ SharedAlias(arg_tables, IsGiven)) => DuplicateAliasFailure

\* C3, amended: every table with a non-empty explicit alias is mapped to exactly
\* that alias, and two tables of a list of pairwise distinct names declaring the
\* same non-empty user alias make the construction fail with the duplicate-alias
\* error, leaving no alias mapping and no SQL.
C3_UserAliasesKeptAndDuplicatesRejected ==
    /\ phase = "constructed" =>
         \A i \in 1..Len(arg_tables) :
             Truthy(arg_tables[i].alias) =>
                 AliasOf(arg_tables[i].name) = arg_tables[i].alias.val
    /\ (phase # "idle" /\ NamesDistinct(arg_tables) /\ SharedAlias(arg_tables, Truthy))
          => DuplicateAliasFailure

\* three distinct tables, the last two sharing a user alias, rejected
C3_Witness ==
    /\ DuplicateAliasFailure
    /\ NamesDistinct(arg_tables)
    /\ Len(arg_tables) = 3
    /\ ~Truthy(arg_tables[1].alias)
    /\ SharedAlias(arg_tables, Truthy)

----------------------------------------------------------------------------
(* C4 *)

\* C4: a single join request passed without a wrapping list is resolved exactly
\* as the one-element list containing it, for every accepted request form:
\* build() returns for joins=r what it returns for joins=[r].
C4_SingleRequestAsOneElementList ==
    (Built /\ arg_joins.kind = "single") =>
        result = RunBuild(arg_tables, arg_select, JoinList(arg_joins.items))

----------------------------------------------------------------------------
(* C5 *)

EndsWith(s, p) == Len(p) <= Len(s) /\ SubSeq(s, Len(s) - Len(p) + 1, Len(s)) = p

\* the table the cursor is on when step i of a via-chain is resolved
CursorName(steps, i) == IF i = 1 THEN PrimaryTable.name ELSE steps[i - 1].table_name

\* C5: a via-chain request with steps s1..sn that resolves emits exactly n JOIN
\* clauses in step order; clause i uses the keyword of step i, joins the table
\* step i names under its alias, and the left side of its ON condition is
\* qualified with the alias of the cursor table: the primary table for i = 1,
\* the table of step i-1 after that.
C5_ViaChainClauses ==
    (Built /\ result.status = "returned") =>
      /\ Len(join_clauses) = ClausesBefore(joins.items, Len(joins.items) + 1)
      /\ \A k \in 1..Len(joins.items) :
           IsViaRequest(joins.items[k]) =>
             LET steps == joins.items[k].via_steps.val
                 off == ClausesBefore(joins.items, k)
             IN  \A i \in 1..Len(steps) :
                   StartsWith(join_clauses[off + i],
                              JoinTypeValue(steps[i].join_type) \o " "
                                \o steps[i].table_name \o " "
                                \o AliasOf(steps[i].table_name) \o " ON "
                                \o AliasOf(CursorName(steps, i)) \o ".")

\* a two-step chain users -> orders -> items resolved, its second step a LEFT JOIN
C5_Witness ==
    /\ Built /\ result.status = "returned"
    /\ Len(joins.items) = 1 /\ IsViaRequest(joins.items[1])
    /\ Len(joins.items[1].via_steps.val) = 2
    /\ joins.items[1].via_steps.val[2].join_type = "LEFT"
    /\ Len(join_clauses) = 2
    /\ StartsWith(join_clauses[2], "LEFT JOIN items ite ON ord.")

----------------------------------------------------------------------------
(* C6 *)

\* the keys of a table's relationship mapping whose effective target is to_name
KeysTo(table, to_name) ==
    IF ~table.joins.some THEN {}
    ELSE {i \in 1..Len(table.joins.val) :
            get_table_name(table.joins.val[i].v, table.joins.val[i].k) = to_name}

\* What C6 expects of a via-chain from step i on, the cursor on table cursor:
\* the join conditions of the steps resolved through their first key, or the
\* "no join found" error of the first step the cursor has no key for.  A step
\* whose table is not in the query is no case of C6: covered is FALSE.
RECURSIVE ExpectedVia(_, _, _, _)
ExpectedVia(steps, i, cursor, conds) ==
    IF i > Len(steps) THEN [covered |-> TRUE, err |-> NoError, conds |-> conds]
    ELSE IF ~DictHas(table_aliases, steps[i].table_name)
    THEN [covered |-> FALSE, err |-> NoError, conds |-> conds]
    ELSE IF KeysTo(cursor, steps[i].table_name) = {}
    THEN [covered |-> TRUE,
          err |-> ValueError("No join found from '" \o cursor.name \o "' to '"
                             \o steps[i].table_name \o "'"),
          conds |-> conds]
    ELSE LET first == cursor.joins.val[SetMin(KeysTo(cursor, steps[i].table_name))].v IN
         ExpectedVia(steps, i + 1, DictGet(tables, steps[i].table_name),
                     Append(conds, " ON " \o AliasOf(cursor.name) \o "." \o first.source_column
                                     \o " = " \o AliasOf(steps[i].table_name) \o "."
                                     \o first.target_column))

\* the requests before request k all resolve
EarlierRequestsResolve(k) ==
    \A m \in 1..(k - 1) :
        JoinItemClauses(PrimaryTable, joins.items[m], tables, table_aliases).err = NoError

\* C6: at each via-chain step the join-key used is the first key of the current
\* table, in mapping order, whose effective target is the step's table; when the
\* current table has no such key (also when it declares no relationships at
\* all) the build fails with the "no join found from X to Y" validation error
\* and returns no SQL.
C6_ViaStepKeyOrNoJoinFound ==
    Built =>
      \A k \in 1..Len(joins.items) :
        (IsViaRequest(joins.items[k]) /\ EarlierRequestsResolve(k)) =>
          LET e == ExpectedVia(joins.items[k].via_steps.val, 1, PrimaryTable, <<>>)
              off == ClausesBefore(joins.items, k)
          IN  /\ (e.covered /\ e.err # NoError) => result = Raised(e.err)
              /\ (e.covered /\ e.err = NoError /\ result.status = "returned") =>
                   \A i \in 1..Len(e.conds) : EndsWith(join_clauses[off + i], e.conds[i])

----------------------------------------------------------------------------
(* C7 *)

\* the join-key of a direct request
DirectKey(item) ==
    IF item.kind = "Join" THEN item.join_key ELSE parse_join_string(item.text).join_key

\* what C7 expects of a direct request with join-key k
ExpectedDirectError(k) ==
    IF ~PrimaryTable.joins.some \/ ~DictHas(PrimaryTable.joins.val, k)
    THEN ValueError("Join '" \o k \o "' not found in table '" \o PrimaryTable.name \o "' joins")
    ELSE LET target == get_table_name(DictGet(PrimaryTable.joins.val, k), k) IN
         IF ~DictHas(table_aliases, target)
         THEN ValueError("Target table '" \o target \o "' not found in tables list")
         ELSE NoError

\* C7: a direct request with join-key k, on any primary table, fails the build
\* with "join not found" when k is absent from the primary table's relationship
\* mapping, else with "target table not in query" when the effective target is
\* absent from the alias mapping; build() then returns no SQL.
C7_DirectRequestErrors ==
    (Built /\ (joins.kind = "list" \/ joins.items[1].kind = "Join")) =>
      \A k \in 1..Len(joins.items) :
        (~IsViaRequest(joins.items[k]) /\ EarlierRequestsResolve(k)) =>
          LET e == ExpectedDirectError(DirectKey(joins.items[k])) IN
          e # NoError => result = Raised(e)

----------------------------------------------------------------------------
(* C8 *)

RECURSIVE CommaSeparated(_)
CommaSeparated(l) ==
    IF l = <<>> THEN ""
    ELSE IF Len(l) = 1 THEN l[1]
    ELSE CommaSeparated(SubSeq(l, 1, Len(l) - 1)) \o ", " \o l[Len(l)]

RECURSIVE EachAfterASpace(_)
EachAfterASpace(l) ==
    IF l = <<>> THEN "" ELSE " " \o Head(l) \o EachAfterASpace(Tail(l))

\* the clauses of requests k.. of the list, each request resolved on its own
RECURSIVE ClausesInRequestOrder(_, _)
ClausesInRequestOrder(items, k) ==
    IF k > Len(items) THEN <<>>
    ELSE JoinItemClauses(PrimaryTable, items[k], tables, table_aliases).clauses
           \o ClausesInRequestOrder(items, k + 1)

\* C8: a successful build() returns one string: the SELECT fragment (the
\* resolved select entries in input order, comma-separated), the FROM fragment
\* (the first supplied table's name and alias) and the JOIN clauses in request
\* order, adjacent fragments one space apart; the parameter mapping is empty.
C8_StatementAssembly ==
    (Built /\ result.status = "returned") =>
      /\ Len(column_aliases) = Len(arg_select)
      /\ \A i \in 1..Len(arg_select) :
           column_aliases[i] = ConvertColumn(arg_select[i], table_aliases).sql
      /\ join_clauses = ClausesInRequestOrder(joins.items, 1)
      /\ result.sql = "SELECT " \o CommaSeparated(column_aliases)
                        \o " FROM " \o arg_tables[1].name \o " " \o AliasOf(arg_tables[1].name)
                        \o EachAfterASpace(join_clauses)
      /\ result.params = <<>>

\* a statement of two select entries and two requests, the second a via-chain
C8_Witness ==
    /\ Built /\ result.status = "returned"
    /\ Len(arg_select) = 2
    /\ Len(joins.items) = 2 /\ IsViaRequest(joins.items[2])
    /\ Len(join_clauses) = 3
    /\ result.sql = "SELECT *, COUNT(id) AS n FROM users u"
                      \o " LEFT JOIN orders ord ON u.id = ord.user_id"
                      \o " INNER JOIN orders ord ON u.id = ord.customer_id"
                      \o " LEFT JOIN items ite ON ord.id = ite.order_id"

----------------------------------------------------------------------------
(* C9 *)

\* the split of a request string at its last space: the text t after it holds
\* no space, and is the whole string or follows a space
SplitAtLastSpace(s) ==
    LET n == CHOOSE m \in 0..Len(s) :
                 /\ Positions(SubSeq(s, Len(s) - m + 1, Len(s)), " ") = {}
                 /\ (m = Len(s) \/ CharAt(s, Len(s) - m) = " ")
    IN  [whole |-> n = Len(s),
         before |-> SubSeq(s, 1, Len(s) - n - 1),
         after |-> SubSeq(s, Len(s) - n + 1, Len(s))]

\* what C9 expects of a request string: a direct join
ExpectedStringJoin(s) ==
    LET p == SplitAtLastSpace(s) IN
    build_direct_join(PrimaryTable, p.after,
                      IF p.whole THEN "INNER JOIN" ELSE Upper(p.before), table_aliases)

\* the requests with request k, a string, replaced by the structured Join(string)
WithStructured(k) ==
    JoinList([joins.items EXCEPT ![k] = Join(joins.items[k].text, NoneList)])

\* C9, first part: a request string is resolved as a direct join whose join-key
\* is the text after the last space and whose keyword is the text before it in
\* upper case, INNER JOIN when there is no space.
StringRequestsParsed ==
    (Built /\ joins.kind = "list") =>
      \A k \in 1..Len(joins.items) :
        (joins.items[k].kind = "str" /\ EarlierRequestsResolve(k)) =>
          LET e == ExpectedStringJoin(joins.items[k].text) IN
          /\ e.err # NoError => result = Raised(e.err)
          /\ (e.err = NoError /\ result.status = "returned") =>
                join_clauses[ClausesBefore(joins.items, k) + 1] = e.clause

\* C9 as stated: the first part, and for every join-key k of the primary table
\* the string k and Join(k) produce the same JOIN clauses.
C9_AsStated ==
    /\ StringRequestsParsed
    /\ (Built /\ joins.kind = "list") =>
         \A k \in 1..Len(joins.items) :
           (joins.items[k].kind = "str" /\ PrimaryTable.joins.some
              /\ DictHas(PrimaryTable.joins.val, joins.items[k].text)) =>
                result = RunBuild(arg_tables, arg_select, WithStructured(k))

\* C9, amended: the first part, and for every join-key k that contains no space
\* the string k and Join(k) produce the same JOIN clauses.
C9_StringFormOfAJoinKey ==
    /\ StringRequestsParsed
    /\ (Built /\ joins.kind = "list") =>
         \A k \in 1..Len(joins.items) :
           (joins.items[k].kind = "str" /\ Positions(joins.items[k].text, " ") = {}) =>
                result = RunBuild(arg_tables, arg_select, WithStructured(k))

\* "left join orders" resolved into a LEFT JOIN of orders
C9_Witness ==
    /\ Built /\ result.status = "returned"
    /\ joins.kind = "list" /\ Len(joins.items) = 1
    /\ joins.items[1].kind = "str" /\ joins.items[1].text = "left join orders"
    /\ join_clauses = <<"LEFT JOIN orders ord ON u.id = ord.user_id">>

----------------------------------------------------------------------------
(* C10 *)

\* what C10 expects of a SelectColumn whose table, if any, is in the query
ExpectedSelectSql(col) ==
    LET expr == IF Truthy(col.table) THEN AliasOf(col.table.val) \o "." \o col.column
                ELSE col.column
        body == CASE col.agg_function.some /\ col.agg_function.val = "COUNT_DISTINCT" ->
                       "COUNT(DISTINCT " \o expr \o ")"
                  [] col.agg_function.some /\ col.agg_function.val # "COUNT_DISTINCT" ->
                       col.agg_function.val \o "(" \o expr \o ")"
                  [] ~col.agg_function.some /\ col.distinct -> "DISTINCT " \o expr
                  [] OTHER -> expr
    IN  IF col.alias.some /\ col.alias.val # "" THEN body \o " AS " \o col.alias.val ELSE body

\* C10: to_sql applies the precedence aggregate > distinct > plain: FUNC(expr)
\* (COUNT(DISTINCT expr) for count-distinct) when an aggregate is set, the
\* distinct flag then ignored; "DISTINCT expr" when only distinct is set; expr
\* otherwise; and " AS <alias>" is appended last exactly when an alias is present.
C10_SelectColumnPrecedence ==
    phase = "constructed" =>
      \A i \in 1..Len(arg_select) :
        arg_select[i].kind = "SelectColumn" =>
          column_aliases[i] = ExpectedSelectSql(arg_select[i])

\* an aggregate with the distinct flag set, a table and an output alias
C10_Witness ==
    /\ phase = "constructed"
    /\ \E i \in 1..Len(arg_select) :
         /\ arg_select[i].kind = "SelectColumn"
         /\ arg_select[i].agg_function = Some("SUM")
         /\ arg_select[i].distinct
         /\ arg_select[i].table = Some("orders")
         /\ arg_select[i].alias = Some("n")
         /\ column_aliases[i] = "SUM(ord.id) AS n"

----------------------------------------------------------------------------
(* C11 *)

HasDot(s) == \E n \in 1..Len(s) : CharAt(s, n) = "."
FirstDot(s) ==
    CHOOSE n \in 1..Len(s) :
        CharAt(s, n) = "." /\ \A m \in 1..(n - 1) : CharAt(s, m) # "."

\* the table a select entry names: the owning table of a SelectColumn that has
\* one, the text before the first dot of a string that has a dot
NamedTable(entry) ==
    IF entry.kind = "SelectColumn"
    THEN IF Truthy(entry.table) THEN entry.table ELSE None
    ELSE IF HasDot(entry.text)
         THEN Some(SubSeq(entry.text, 1, FirstDot(entry.text) - 1))
         ELSE None

\* the constructor got as far as resolving the select list
AliasesAllocated ==
    /\ phase \in {"constructed", "raised"}
    /\ validate_unique_table_names(arg_tables) = NoError
    /\ generate_table_aliases(arg_tables).err = NoError
    /\ ~generate_table_aliases(arg_tables).hang

\* the select entries that name a table the query does not have
UnknownTableEntries ==
    {i \in 1..Len(arg_select) :
        /\ NamedTable(arg_select[i]).some
        /\ \A j \in 1..Len(arg_tables) : arg_tables[j].name # NamedTable(arg_select[i]).val}

\* the fragment C11 expects of select entry i when its table is in the query
ExpectedFragment(entry) ==
    IF entry.kind = "SelectColumn" THEN ExpectedSelectSql(entry)
    ELSE IF HasDot(entry.text)
         THEN AliasOf(NamedTable(entry).val) \o "."
                \o SubSeq(entry.text, FirstDot(entry.text) + 1, Len(entry.text))
         ELSE entry.text

\* C11: resolving the select list replaces the qualifier of a string (the text
\* before its first dot) by that table's alias, qualifies a SelectColumn that
\* has a table with that table's alias, and leaves unqualified strings and
\* table-less SelectColumns with their column text; if an entry names a table
\* that is not in the alias mapping the constructor raises the table-not-found
\* ValueError for the first such entry and no select fragments are stored.
C11_SelectEntriesResolved ==
    AliasesAllocated =>
      IF UnknownTableEntries # {}
      THEN /\ phase = "raised"
           /\ ctor_error.exc = "ValueError"
           /\ StartsWith(ctor_error.msg,
                         "Table '" \o NamedTable(arg_select[SetMin(UnknownTableEntries)]).val
                           \o "' not found in ")
           /\ column_aliases = <<>>
      ELSE /\ phase = "constructed"
           /\ Len(column_aliases) = Len(arg_select)
           /\ \A i \in 1..Len(arg_select) :
                column_aliases[i] = ExpectedFragment(arg_select[i])

\* a resolved entry followed by one that names a table the query does not have
C11_Witness ==
    /\ phase = "raised"
    /\ arg_select = <<StrSelectItem("users.name"), StrSelectItem("ghost.col")>>
    /\ ctor_error = ValueError("Table 'ghost' not found in tables list. Available tables: ['users', 'orders']")
    /\ column_aliases = <<>>

----------------------------------------------------------------------------
(* C12 *)

\* the table C12 expects relationship join_def, stored under join_key, to name
EffectiveTarget(join_def, join_key) ==
    IF join_def.table_name = None \/ join_def.table_name = Some("")
    THEN join_key
    ELSE join_def.table_name.val

\* the builder holds exactly one request, a direct Join whose join-key is a
\* relationship of the primary table
OneDirectRequest ==
    /\ Built
    /\ Len(joins.items) = 1
    /\ joins.items[1].kind = "Join"
    /\ ~IsViaRequest(joins.items[1])
    /\ PrimaryTable.joins.some
    /\ DictHas(PrimaryTable.joins.val, joins.items[1].join_key)

\* C12: get_table_name(join_key) is the table-name override when the override
\* is a non-empty string and join_key when the override is None or "": the
\* table build() joins for a direct request, or reports as missing from the
\* query, is that one.
C12_OverrideOrJoinKey ==
    OneDirectRequest =>
      LET join_key == joins.items[1].join_key
          target == EffectiveTarget(DictGet(PrimaryTable.joins.val, join_key), join_key)
      IN  IF DictHas(table_aliases, target)
          THEN /\ result.status = "returned"
               /\ Len(join_clauses) = 1
               /\ StartsWith(join_clauses[1],
                             "INNER JOIN " \o target \o " " \o AliasOf(target) \o " ON ")
          ELSE result = Raised(ValueError("Target table '" \o target
                                          \o "' not found in tables list"))

\* the relationship "profiles" has the override "": its join-key names the table
C12_Witness ==
    /\ OneDirectRequest
    /\ joins.items[1] = Join("profiles", NoneList)
    /\ DictGet(PrimaryTable.joins.val, "profiles").table_name = Some("")
    /\ result = Raised(ValueError("Target table 'profiles' not found in tables list"))

----------------------------------------------------------------------------
(* C13 *)

\* what the two builders hold: their table registries (each Table's alias and
\* relationships), alias mappings, select fragments and join requests
BuilderFields ==
    <<tables, joins, table_aliases, column_aliases, arg_tables,
      other_tables, other_joins, other_table_aliases, other_column_aliases>>

BuildCalled == builds' # builds \/ other_builds' # other_builds

\* C13: build() changes no field of its builder or of another builder made
\* from the same tables, whether it returns or raises, and every build() of a
\* builder gives what its first build() gave, however the builds of the two
\* builders are interleaved.
C13_BuildIsPure ==
    /\ [][BuildCalled => UNCHANGED BuilderFields]_vars
    /\ [](builds > 0 => result = first_result)
    /\ [](other_builds > 0 => other_result = other_first_result)

\* both builders built twice, one returning SQL and the other raising
C13_Witness ==
    /\ builds = MaxBuilds
    /\ other_builds = MaxBuilds
    /\ result.status = "returned"
    /\ join_clauses # <<>>
    /\ other_result.status = "raised"
    /\ result = first_result
    /\ other_result = other_first_result

----------------------------------------------------------------------------
(* C14 *)

Contains(s, p) ==
    \E i \in 1..(Len(s) - Len(p) + 1) : SubSeq(s, i, i + Len(p) - 1) = p

\* the FROM clause of the statement introduces alias a
FromIntroduces(a) ==
    \E i \in 1..Len(table_aliases) :
        Contains(result.sql \o " ", " FROM " \o table_aliases[i].k \o " " \o a \o " ")

\* the JOIN clauses of the statement that introduce alias a
JoinsIntroducing(a) ==
    {i \in 1..Len(join_clauses) : Contains(join_clauses[i], " " \o a \o " ON ")}

Introductions(a) ==
    (IF FromIntroduces(a) THEN 1 ELSE 0) + Cardinality(JoinsIntroducing(a))

\* C14: a statement build() returns introduces each table alias at most once
\* across its FROM clause and its JOIN clauses.
C14_EachAliasIntroducedOnce ==
    (Built /\ result.status = "returned") =>
      \A i \in 1..Len(table_aliases) : Introductions(table_aliases[i].v) <= 1

----------------------------------------------------------------------------
(* C15 *)

\* the joins argument with the join_key of request k replaced
WithJoinKey(jn, k, key) == [jn EXCEPT !.items[k].join_key = key]

\* join-keys to compare with: relationships of the primary table, of another
\* table, of no table, and the empty string
OtherJoinKeys == {"orders", "recent orders", "items", "users", "ghost", ""}

\* C15: the outcome of build() for a request with a non-empty via-step list
\* does not depend on the request's join_key: the same builder with any other
\* join_key in that request returns the same statement or raises the same error.
C15_ViaRequestIgnoresJoinKey ==
    Built =>
      \A k \in 1..Len(arg_joins.items) :
        IsViaRequest(arg_joins.items[k]) =>
          \A key \in OtherJoinKeys :
            RunBuild(arg_tables, arg_select, WithJoinKey(arg_joins, k, key)) = result

\* a via request whose join_key is no relationship of the primary table and
\* differs from its last step's table, and whose chain resolves
C15_Witness ==
    /\ Built
    /\ arg_joins = JoinList(<<Join("items", SomeList(<<ViaStep("orders", "LEFT")>>))>>)
    /\ PrimaryTable.name = "users"
    /\ ~DictHas(PrimaryTable.joins.val, "items")
    /\ result.status = "returned"
    /\ Len(join_clauses) = 1

====
